---- MODULE Spec2Model ----
(***************************************************************************)
(* Model of the two services of the repository:                            *)
(*   - hw2/hw/shop_api/main.py : the Item / Cart shop API (FastAPI over     *)
(*     SQLAlchemy; DATABASE_URL defaults to SQLite, main.py line 22);       *)
(*   - hw1/app.py : the raw ASGI numeric application.                       *)
(* A SELECT without ORDER BY is modelled with the row order of the default  *)
(* engine: SQLite walks the items and carts tables by rowid (= id) and the  *)
(* cart_items rows of one cart through the primary-key index, that is by    *)
(* ascending item_id.                                                       *)
(***************************************************************************)
EXTENDS Integers, Sequences, FiniteSets, TLC

\* ------------------------------------------------------------------ bounds
MaxItemId == 2
MaxCarts == 2
MaxQty == 2
NThreads == 2
MaxSuffixLen == 3
MaxFibN == 12

ItemIds == 1..MaxItemId
\* The largest rowid of the engine (2^63 - 1 in SQLite), scaled to the model: an id
\* a caller may choose through PUT, above every id the model lets POST assign.
MaxRowid == MaxItemId + 2
CartIds == 1..MaxCarts
Names == {"a", "b"}
Prices == {10, 20}

\* Python's None and an optional value that is present.
None == <<>>
Some(v) == <<v>>
Opt(S) == {None} \cup {Some(v) : v \in S}

VARIABLES
    items,        \* table items: id -> [name, price, deleted]
    carts,        \* table carts: the set of cart ids
    cart_items,   \* table cart_items: <<cart_id, item_id>> -> quantity
    req,          \* the request handled last
    resp,         \* the response it was given
    added,        \* history: <<cart_id, item_id>> -> number of 200 answers of add-item
    first_added,  \* history: cart_id -> item ids in the order of their first add
    threads,      \* concurrent post_cart requests: thread -> local state
    path,         \* hw1: scope["path"] of the request handled last, as characters
    sent,         \* hw1: the ASGI messages sent for it
    query_string, \* hw1: scope["query_string"] of that request, as characters
    pc,           \* hw1: where application is: "idle", "receive" (awaiting receive()), "done"
    body,         \* hw1: the variable body of the /mean branch, as characters
    received,     \* hw1: message = await receive(), the message read last
    client,       \* hw1: the server's side of the connection: body not yet delivered, connected
    error,        \* hw1: the exception the except handler caught, or None
    created       \* history kept by SpecIds: the items in creation order, with the route

store == <<items, carts, cart_items>>
history == <<added, first_added>>
shop == <<items, carts, cart_items, req, resp, added, first_added>>
numeric == <<path, sent, query_string, pc, body, received, client, error>>
vars == <<items, carts, cart_items, req, resp, added, first_added, threads, path, sent,
          query_string, pc, body, received, client, error, created>>

\* ----------------------------------------------------------------- helpers
Max(S) == CHOOSE m \in S : \A x \in S : x <= m

\* The rows of a table keyed by integers, in the engine's order (ascending key).
Ascending(S) ==
    IF S = {} THEN <<>> ELSE SelectSeq([i \in 1..Max(S) |-> i], LAMBDA i : i \in S)

\* query.offset(offset).limit(limit) over an ordered result.
OffsetLimit(rows, offset, limit) ==
    SubSeq(rows, offset + 1, IF offset + limit < Len(rows) THEN offset + limit ELSE Len(rows))

JSONResponse(status, content) == [status |-> status, body |-> content]
Message(m) == [message |-> m]

\* ------------------------------------------------------------ Item, Cart
\* Item(name=..., price=...) once inserted: the column default sets deleted.
Item(name, price) == [name |-> name, price |-> price, deleted |-> FALSE]

Item_serialize(its, id) ==
    [id |-> id, name |-> its[id].name, price |-> its[id].price, deleted |-> its[id].deleted]

\* cart_items.select().where(cart_id == self.id).fetchall(): the item ids of the rows.
CartRows(ci, cart_id) == Ascending({x \in ItemIds : <<cart_id, x>> \in DOMAIN ci})

\* Cart.add_item whose update writes quantity 1 instead of result.quantity + 1.
Cart_add_item_reset(ci, cart_id, item_id) ==
    IF <<cart_id, item_id>> \in DOMAIN ci
    THEN [ci EXCEPT ![<<cart_id, item_id>>] = 1]
    ELSE [p \in DOMAIN ci \cup {<<cart_id, item_id>>} |->
             IF p = <<cart_id, item_id>> THEN 1 ELSE ci[p]]

\* Cart.add_item: select the row, then update quantity + 1 or insert quantity 1.
Cart_add_item(ci, cart_id, item_id) ==
    IF <<cart_id, item_id>> \in DOMAIN ci
    THEN [ci EXCEPT ![<<cart_id, item_id>>] = ci[<<cart_id, item_id>>] + 1]
    ELSE [p \in DOMAIN ci \cup {<<cart_id, item_id>>} |->
             IF p = <<cart_id, item_id>> THEN 1 ELSE ci[p]]

\* Cart.quantity: the loop over the rows, adding the quantity of live items.
RECURSIVE QuantityLoop(_, _, _, _)
QuantityLoop(its, ci, cart_id, rows) ==
    IF rows = <<>> THEN 0
    ELSE LET x == Head(rows)
         IN (IF x \in DOMAIN its /\ ~its[x].deleted THEN ci[<<cart_id, x>>] ELSE 0)
            + QuantityLoop(its, ci, cart_id, Tail(rows))

\* Cart.quantity without the test of item.deleted.
RECURSIVE QuantityLoopAll(_, _, _, _)
QuantityLoopAll(its, ci, cart_id, rows) ==
    IF rows = <<>> THEN 0
    ELSE LET x == Head(rows)
         IN (IF x \in DOMAIN its THEN ci[<<cart_id, x>>] ELSE 0)
            + QuantityLoopAll(its, ci, cart_id, Tail(rows))

Cart_quantity_all(its, ci, cart_id) == QuantityLoopAll(its, ci, cart_id, CartRows(ci, cart_id))

\* Cart.quantity
Cart_quantity(its, ci, cart_id) == QuantityLoop(its, ci, cart_id, CartRows(ci, cart_id))

\* Cart.price: the same loop with quantity * item.price.
RECURSIVE PriceLoop(_, _, _, _)
PriceLoop(its, ci, cart_id, rows) ==
    IF rows = <<>> THEN 0
    ELSE LET x == Head(rows)
         IN (IF x \in DOMAIN its /\ ~its[x].deleted
             THEN ci[<<cart_id, x>>] * its[x].price ELSE 0)
            + PriceLoop(its, ci, cart_id, Tail(rows))

Cart_price(its, ci, cart_id) == PriceLoop(its, ci, cart_id, CartRows(ci, cart_id))

\* Cart.serialize: one entry per row whose item resolves, in row order.
RECURSIVE SerializeLoop(_, _, _, _)
SerializeLoop(its, ci, cart_id, rows) ==
    IF rows = <<>> THEN <<>>
    ELSE LET x == Head(rows)
         IN (IF x \in DOMAIN its
             THEN <<[id |-> x, name |-> its[x].name,
                     quantity |-> ci[<<cart_id, x>>], available |-> ~its[x].deleted]>>
             ELSE <<>>)
            \o SerializeLoop(its, ci, cart_id, Tail(rows))

Cart_serialize(its, ci, cart_id) ==
    [id |-> cart_id,
     price |-> Cart_price(its, ci, cart_id),
     items |-> SerializeLoop(its, ci, cart_id, CartRows(ci, cart_id))]

\* --------------------------------------------------------- shop requests
ReqItemIds == 1..(MaxItemId + 1)
ReqCartIds == 1..(MaxCarts + 1)
ShopNames == {"a"}
\* <<offset, limit>> pairs and range filters of the listings.
Windows == {<<0, 1>>, <<1, 1>>, <<0, 2>>}
CartRanges ==
    {[min_price |-> None, max_price |-> None, min_quantity |-> None, max_quantity |-> None],
     [min_price |-> Some(20), max_price |-> None, min_quantity |-> None, max_quantity |-> None],
     [min_price |-> None, max_price |-> Some(10), min_quantity |-> None, max_quantity |-> None],
     [min_price |-> None, max_price |-> None, min_quantity |-> Some(2), max_quantity |-> None],
     [min_price |-> None, max_price |-> None, min_quantity |-> None, max_quantity |-> Some(1)]}
ItemRanges ==
    {[min_price |-> None, max_price |-> None],
     [min_price |-> Some(20), max_price |-> None],
     [min_price |-> None, max_price |-> Some(10)]}
ShopItemRanges ==
    {[min_price |-> None, max_price |-> None],
     [min_price |-> Some(20), max_price |-> None]}

Extend(f, k, v) == [p \in DOMAIN f \cup {k} |-> IF p = k THEN v ELSE f[p]]

\* POST /cart
create_cart ==
    /\ Cardinality(carts) < MaxCarts
    /\ LET id == IF carts = {} THEN 1 ELSE Max(carts) + 1
       IN /\ carts' = carts \cup {id}
          /\ first_added' = Extend(first_added, id, <<>>)
          /\ req' = [op |-> "create_cart"]
          /\ resp' = JSONResponse(201, [id |-> id])
    /\ UNCHANGED <<items, cart_items, added>>

\* GET /cart/{id}
get_cart_by_id(id) ==
    /\ req' = [op |-> "get_cart_by_id", id |-> id]
    /\ resp' = IF id \in carts
               THEN JSONResponse(200, Cart_serialize(items, cart_items, id))
               ELSE JSONResponse(422, Message("no such id"))
    /\ UNCHANGED <<store, history>>

\* The range test of get_cart_with_params on one cart.
CartPasses(its, ci, cart_id, min_price, max_price, min_quantity, max_quantity) ==
    LET price == Cart_price(its, ci, cart_id)
        quantity == Cart_quantity(its, ci, cart_id)
    IN /\ (min_price = None \/ price >= min_price[1])
       /\ (max_price = None \/ price <= max_price[1])
       /\ (min_quantity = None \/ quantity >= min_quantity[1])
       /\ (max_quantity = None \/ quantity <= max_quantity[1])

RECURSIVE FilterCarts(_, _, _, _, _, _, _)
FilterCarts(its, ci, cs, min_price, max_price, min_quantity, max_quantity) ==
    IF cs = <<>> THEN <<>>
    ELSE (IF CartPasses(its, ci, Head(cs), min_price, max_price, min_quantity, max_quantity)
          THEN <<Cart_serialize(its, ci, Head(cs))>> ELSE <<>>)
         \o FilterCarts(its, ci, Tail(cs), min_price, max_price, min_quantity, max_quantity)

\* A listing that filters the whole table and slices afterwards.
CartListing_filter_first(offset, limit, min_price, max_price, min_quantity, max_quantity) ==
    OffsetLimit(FilterCarts(items, cart_items, Ascending(carts),
                            min_price, max_price, min_quantity, max_quantity),
                offset, limit)

\* The body of get_cart_with_params: offset/limit in the query, the ranges in the loop.
CartListing(offset, limit, min_price, max_price, min_quantity, max_quantity) ==
    FilterCarts(items, cart_items, OffsetLimit(Ascending(carts), offset, limit),
                min_price, max_price, min_quantity, max_quantity)

\* GET /cart
get_cart_with_params(offset, limit, min_price, max_price, min_quantity, max_quantity) ==
    /\ req' = [op |-> "get_cart_with_params", offset |-> offset, limit |-> limit,
               min_price |-> min_price, max_price |-> max_price,
               min_quantity |-> min_quantity, max_quantity |-> max_quantity]
    /\ resp' = JSONResponse(200, CartListing(offset, limit, min_price, max_price,
                                             min_quantity, max_quantity))
    /\ UNCHANGED <<store, history>>

\* The history of successful adds kept beside post_cart.
RecordAdd(cart_id, item_id) ==
    /\ added' = IF <<cart_id, item_id>> \in DOMAIN added
                THEN [added EXCEPT ![<<cart_id, item_id>>] = added[<<cart_id, item_id>>] + 1]
                ELSE Extend(added, <<cart_id, item_id>>, 1)
    /\ first_added' =
          IF \E k \in 1..Len(first_added[cart_id]) : first_added[cart_id][k] = item_id
          THEN first_added
          ELSE [first_added EXCEPT ![cart_id] = Append(first_added[cart_id], item_id)]

\* post_cart with the item looked up only after the row is written.
post_cart_late_check(cart_id, item_id) ==
    /\ req' = [op |-> "post_cart", cart_id |-> cart_id, item_id |-> item_id]
    /\ IF cart_id \notin carts
       THEN /\ resp' = JSONResponse(422, Message("no such cart_id"))
            /\ UNCHANGED <<store, history>>
       ELSE /\ <<cart_id, item_id>> \in DOMAIN cart_items => cart_items[<<cart_id, item_id>>] < MaxQty
            /\ cart_items' = Cart_add_item(cart_items, cart_id, item_id)
            /\ IF item_id \notin DOMAIN items
               THEN /\ resp' = JSONResponse(422, Message("no such item_id"))
                    /\ UNCHANGED history
               ELSE /\ resp' = JSONResponse(200, Message("item added"))
                    /\ RecordAdd(cart_id, item_id)
            /\ UNCHANGED <<items, carts>>

\* post_cart whose item lookup also asks for deleted == False.
post_cart_live_only(cart_id, item_id) ==
    /\ req' = [op |-> "post_cart", cart_id |-> cart_id, item_id |-> item_id]
    /\ IF cart_id \notin carts
       THEN /\ resp' = JSONResponse(422, Message("no such cart_id"))
            /\ UNCHANGED <<store, history>>
       ELSE IF item_id \notin DOMAIN items \/ items[item_id].deleted
       THEN /\ resp' = JSONResponse(422, Message("no such item_id"))
            /\ UNCHANGED <<store, history>>
       ELSE /\ <<cart_id, item_id>> \in DOMAIN cart_items => cart_items[<<cart_id, item_id>>] < MaxQty
            /\ cart_items' = Cart_add_item(cart_items, cart_id, item_id)
            /\ resp' = JSONResponse(200, Message("item added"))
            /\ RecordAdd(cart_id, item_id)
            /\ UNCHANGED <<items, carts>>

\* POST /cart/{cart_id}/add/{item_id}
post_cart(cart_id, item_id) ==
    /\ req' = [op |-> "post_cart", cart_id |-> cart_id, item_id |-> item_id]
    /\ IF cart_id \notin carts
       THEN /\ resp' = JSONResponse(422, Message("no such cart_id"))
            /\ UNCHANGED <<store, history>>
       ELSE IF item_id \notin DOMAIN items
       THEN /\ resp' = JSONResponse(422, Message("no such item_id"))
            /\ UNCHANGED <<store, history>>
       ELSE /\ <<cart_id, item_id>> \in DOMAIN cart_items => cart_items[<<cart_id, item_id>>] < MaxQty
            /\ cart_items' = Cart_add_item(cart_items, cart_id, item_id)
            /\ resp' = JSONResponse(200, Message("item added"))
            /\ RecordAdd(cart_id, item_id)
            /\ UNCHANGED <<items, carts>>

\* The ids the engine may give an INSERT without id: 1 into an empty table, else
\* max(id) + 1, and once the largest rowid is taken any id that is not in use.
NewRowids(ids) ==
    IF ids = {} THEN {1}
    ELSE IF Max(ids) < MaxRowid THEN {Max(ids) + 1}
    ELSE {i \in 1..MaxRowid : i \notin ids}

\* POST /item
add_item(name, price) ==
    \E id \in NewRowids(DOMAIN items) :
       /\ id <= MaxItemId
       /\ items' = Extend(items, id, Item(name, price))
       /\ req' = [op |-> "add_item", name |-> name, price |-> price]
       /\ resp' = JSONResponse(201, Item_serialize(items', id))
       /\ UNCHANGED <<carts, cart_items, history>>

\* get_item_by_id without the deleted == False condition of its query.
get_item_by_id_any(id) ==
    /\ req' = [op |-> "get_item_by_id", id |-> id]
    /\ resp' = IF id \in DOMAIN items
               THEN JSONResponse(200, Item_serialize(items, id))
               ELSE JSONResponse(404, Message("not found"))
    /\ UNCHANGED <<store, history>>

\* GET /item/{id}
get_item_by_id(id) ==
    /\ req' = [op |-> "get_item_by_id", id |-> id]
    /\ resp' = IF id \in DOMAIN items /\ ~items[id].deleted
               THEN JSONResponse(200, Item_serialize(items, id))
               ELSE JSONResponse(404, Message("not found"))
    /\ UNCHANGED <<store, history>>

\* The WHERE clause get_item_query builds.
ItemPasses(its, id, min_price, max_price, show_deleted) ==
    /\ (show_deleted \/ ~its[id].deleted)
    /\ (min_price = None \/ its[id].price >= min_price[1])
    /\ (max_price = None \/ its[id].price <= max_price[1])

RECURSIVE SerializeItems(_, _)
SerializeItems(its, ids) ==
    IF ids = <<>> THEN <<>>
    ELSE <<Item_serialize(its, Head(ids))>> \o SerializeItems(its, Tail(ids))

\* The body of get_item_query: the filters, then offset/limit, all in one query.
ItemListing(offset, limit, min_price, max_price, show_deleted) ==
    LET matching == {id \in DOMAIN items :
                        ItemPasses(items, id, min_price, max_price, show_deleted)}
    IN SerializeItems(items, OffsetLimit(Ascending(matching), offset, limit))

\* GET /item
get_item_query(offset, limit, min_price, max_price, show_deleted) ==
    /\ req' = [op |-> "get_item_query", offset |-> offset, limit |-> limit,
               min_price |-> min_price, max_price |-> max_price,
               show_deleted |-> show_deleted]
    /\ resp' = JSONResponse(200, ItemListing(offset, limit, min_price, max_price, show_deleted))
    /\ UNCHANGED <<store, history>>

\* put_item that stores a fresh Item over an existing row.
put_item_fresh(id, name, price) ==
    /\ id \in ItemIds \cup {MaxRowid}
    /\ items' = IF id \in DOMAIN items
                THEN [items EXCEPT ![id] = Item(name, price)]
                ELSE Extend(items, id, Item(name, price))
    /\ req' = [op |-> "put_item", id |-> id, name |-> name, price |-> price]
    /\ resp' = JSONResponse(200, Item_serialize(items', id))
    /\ UNCHANGED <<carts, cart_items, history>>

\* put_item under the other policy: an id that does not exist is rejected.
put_item_reject_absent(id, name, price) ==
    /\ id \in ItemIds \cup {MaxRowid}
    /\ req' = [op |-> "put_item", id |-> id, name |-> name, price |-> price]
    /\ IF id \in DOMAIN items
       THEN /\ items' = [items EXCEPT ![id].name = name, ![id].price = price]
            /\ resp' = JSONResponse(200, Item_serialize(items', id))
       ELSE /\ resp' = JSONResponse(404, Message("not found"))
            /\ UNCHANGED items
    /\ UNCHANGED <<carts, cart_items, history>>

\* PUT /item/{id}
put_item(id, name, price) ==
    /\ id \in ItemIds \cup {MaxRowid}
    /\ items' = IF id \in DOMAIN items
                THEN [items EXCEPT ![id].name = name, ![id].price = price]
                ELSE Extend(items, id, Item(name, price))
    /\ req' = [op |-> "put_item", id |-> id, name |-> name, price |-> price]
    /\ resp' = JSONResponse(200, Item_serialize(items', id))
    /\ UNCHANGED <<carts, cart_items, history>>

\* The assignments of patch_item without their "is not None" tests: a field the
\* payload leaves out is cleared.
ApplyUpdates_unset(item, name, price) ==
    [item EXCEPT !.name = IF name /= None THEN name[1] ELSE "",
                 !.price = IF price /= None THEN price[1] ELSE 0]

\* The assignments of patch_item: only the supplied fields.
ApplyUpdates(item, name, price) ==
    [item EXCEPT !.name = IF name /= None THEN name[1] ELSE @,
                 !.price = IF price /= None THEN price[1] ELSE @]

\* patch_item that tests item.deleted only after the assignments.
patch_item_late_check(id, name, price) ==
    /\ req' = [op |-> "patch_item", id |-> id, name |-> name, price |-> price]
    /\ IF id \notin DOMAIN items
       THEN /\ resp' = JSONResponse(422, Message("not found"))
            /\ UNCHANGED items
       ELSE /\ items' = [items EXCEPT ![id] = ApplyUpdates(items[id], name, price)]
            /\ resp' = IF items[id].deleted
                       THEN JSONResponse(304, Message("not modified"))
                       ELSE JSONResponse(200, Item_serialize(items', id))
    /\ UNCHANGED <<carts, cart_items, history>>

\* PATCH /item/{id}
patch_item(id, name, price) ==
    /\ req' = [op |-> "patch_item", id |-> id, name |-> name, price |-> price]
    /\ IF id \notin DOMAIN items
       THEN /\ resp' = JSONResponse(422, Message("not found"))
            /\ UNCHANGED items
       ELSE IF items[id].deleted
       THEN /\ resp' = JSONResponse(304, Message("not modified"))
            /\ UNCHANGED items
       ELSE /\ items' = [items EXCEPT ![id] = ApplyUpdates(items[id], name, price)]
            /\ resp' = JSONResponse(200, Item_serialize(items', id))
    /\ UNCHANGED <<carts, cart_items, history>>

\* DELETE /item/{id}
delete_item(id) ==
    /\ req' = [op |-> "delete_item", id |-> id]
    /\ IF id \in DOMAIN items
       THEN /\ items' = [items EXCEPT ![id].deleted = TRUE]
            /\ resp' = JSONResponse(200, Message("item deleted"))
       ELSE /\ resp' = JSONResponse(404, Message("not found"))
            /\ UNCHANGED items
    /\ UNCHANGED <<carts, cart_items, history>>

\* hw1 before any request: nothing read, no connection, nothing caught.
NoMessage == [type |-> "none"]
NoClient == [rest |-> <<>>, connected |-> FALSE]
NoRequest ==
    /\ query_string = <<>>
    /\ pc = "idle"
    /\ body = <<>>
    /\ received = NoMessage
    /\ client = NoClient
    /\ error = None

\* ------------------------------------------------- the sequential shop
\* The tables after Base.metadata.create_all on an empty database.
Init ==
    /\ items = <<>>
    /\ carts = {}
    /\ cart_items = <<>>
    /\ req = [op |-> "none"]
    /\ resp = JSONResponse(0, Message(""))
    /\ added = <<>>
    /\ first_added = <<>>
    /\ threads = <<>>
    /\ path = <<>>
    /\ sent = <<>>
    /\ NoRequest
    /\ created = <<>>

\* The requests of the shop that read or write one record, from small input sets.
Next ==
    \/ create_cart /\ UNCHANGED <<threads, numeric, created>>
    \/ \E id \in ReqCartIds : get_cart_by_id(id) /\ UNCHANGED <<threads, numeric, created>>
    \/ \E cart_id \in ReqCartIds, item_id \in ReqItemIds :
          post_cart(cart_id, item_id) /\ UNCHANGED <<threads, numeric, created>>
    \/ \E name \in ShopNames, price \in Prices :
          add_item(name, price) /\ UNCHANGED <<threads, numeric, created>>
    \/ \E id \in ReqItemIds : get_item_by_id(id) /\ UNCHANGED <<threads, numeric, created>>
    \/ \E id \in ItemIds, name \in ShopNames, price \in Prices :
          put_item(id, name, price) /\ UNCHANGED <<threads, numeric, created>>
    \/ \E id \in ReqItemIds, price \in Opt(Prices) :
          patch_item(id, None, price) /\ UNCHANGED <<threads, numeric, created>>
    \/ \E id \in ReqItemIds : delete_item(id) /\ UNCHANGED <<threads, numeric, created>>

Spec == Init /\ [][Next]_vars

\* The two listings over the stores the writing requests build.
NextList ==
    \/ create_cart /\ UNCHANGED <<threads, numeric, created>>
    \/ \E cart_id \in CartIds, item_id \in ItemIds :
          post_cart(cart_id, item_id) /\ UNCHANGED <<threads, numeric, created>>
    \/ \E id \in ItemIds, name \in ShopNames, price \in Prices :
          put_item(id, name, price) /\ UNCHANGED <<threads, numeric, created>>
    \/ \E id \in ItemIds : delete_item(id) /\ UNCHANGED <<threads, numeric, created>>
    \/ \E w \in Windows, r \in CartRanges :
          get_cart_with_params(w[1], w[2], r.min_price, r.max_price,
                               r.min_quantity, r.max_quantity)
          /\ UNCHANGED <<threads, numeric, created>>
    \/ \E w \in Windows, r \in ShopItemRanges, show_deleted \in BOOLEAN :
          get_item_query(w[1], w[2], r.min_price, r.max_price, show_deleted)
          /\ UNCHANGED <<threads, numeric, created>>

SpecList == Init /\ [][NextList]_vars

\* The item store alone, with every name, price and PATCH payload.
NextItems ==
    \/ \E name \in Names, price \in Prices :
          add_item(name, price) /\ UNCHANGED <<threads, numeric, created>>
    \/ \E id \in ReqItemIds : get_item_by_id(id) /\ UNCHANGED <<threads, numeric, created>>
    \/ \E w \in Windows, r \in ItemRanges, show_deleted \in BOOLEAN :
          get_item_query(w[1], w[2], r.min_price, r.max_price, show_deleted)
          /\ UNCHANGED <<threads, numeric, created>>
    \/ \E id \in ItemIds, name \in Names, price \in Prices :
          put_item(id, name, price) /\ UNCHANGED <<threads, numeric, created>>
    \/ \E id \in ReqItemIds, name \in Opt(Names), price \in Opt(Prices) :
          patch_item(id, name, price) /\ UNCHANGED <<threads, numeric, created>>
    \/ \E id \in ReqItemIds : delete_item(id) /\ UNCHANGED <<threads, numeric, created>>

SpecItems == Init /\ [][NextItems]_vars

\* The creation history: a request that inserts an Item row appends the row's id and
\* the route that inserted it.
RecordCreated ==
    created' = IF DOMAIN items' = DOMAIN items THEN created
               ELSE Append(created, [id |-> CHOOSE i \in DOMAIN items' : i \notin DOMAIN items,
                                     by |-> req'.op])

\* The ids a caller may choose for PUT: the small ids and the largest rowid.
PutIds == ItemIds \cup {MaxRowid}

\* The item store with caller-chosen and engine-assigned ids, and the order in which
\* the rows were created.
NextIds ==
    \/ \E name \in ShopNames, price \in Prices :
          add_item(name, price) /\ RecordCreated /\ UNCHANGED <<threads, numeric>>
    \/ \E id \in PutIds, name \in ShopNames, price \in Prices :
          put_item(id, name, price) /\ RecordCreated /\ UNCHANGED <<threads, numeric>>
    \/ \E id \in ReqItemIds : get_item_by_id(id) /\ UNCHANGED <<threads, numeric, created>>
    \/ \E w \in Windows, show_deleted \in BOOLEAN :
          get_item_query(w[1], w[2], None, None, show_deleted)
          /\ UNCHANGED <<threads, numeric, created>>
    \/ \E id \in PutIds : delete_item(id) /\ UNCHANGED <<threads, numeric, created>>

SpecIds == Init /\ [][NextIds]_vars

\* A store the sequential requests reach: any items with any name, price and deleted
\* flag, every cart created and some entries added once to the first cart.
InitFrame ==
    /\ \E I \in SUBSET ItemIds :
          /\ items \in [I -> [name : Names, price : Prices, deleted : BOOLEAN]]
          /\ \E D \in SUBSET ({1} \X I) :
                /\ cart_items = [p \in D |-> 1]
                /\ added = [p \in D |-> 1]
                /\ first_added = [c \in CartIds |-> Ascending({x \in I : <<c, x>> \in D})]
    /\ carts = CartIds
    /\ req = [op |-> "none"]
    /\ resp = JSONResponse(0, Message(""))
    /\ threads = <<>>
    /\ path = <<>>
    /\ sent = <<>>
    /\ NoRequest
    /\ created = <<>>

\* The requests that write an item, with every name, price and PATCH payload, over
\* stores whose carts hold entries.
NextFrame ==
    \/ \E id \in ItemIds, name \in Names, price \in Prices :
          put_item(id, name, price) /\ UNCHANGED <<threads, numeric, created>>
    \/ \E id \in ReqItemIds, name \in Opt(Names), price \in Opt(Prices) :
          patch_item(id, name, price) /\ UNCHANGED <<threads, numeric, created>>
    \/ \E id \in ReqItemIds : delete_item(id) /\ UNCHANGED <<threads, numeric, created>>

SpecFrame == InitFrame /\ [][NextFrame]_vars

\* ------------------------------------------- concurrent add-item requests
\* Sync endpoints run on the worker threads of the server, each request with its own
\* Session (get_db): the SELECT of Cart.add_item opens no write transaction, so other
\* requests may commit between it and the UPDATE or INSERT that follows.
Threads == 1..NThreads
Idle == [pc |-> "idle", cart_id |-> 0, item_id |-> 0, result |-> None, status |-> 0]

\* post_cart up to the call of cart.add_item: the two lookups and their rejections.
conc_post_cart(t, cart_id, item_id) ==
    /\ threads[t].pc = "idle"
    /\ threads' = [threads EXCEPT ![t] =
          IF cart_id \notin carts \/ item_id \notin DOMAIN items
          THEN [pc |-> "done", cart_id |-> cart_id, item_id |-> item_id,
                result |-> None, status |-> 422]
          ELSE [pc |-> "select", cart_id |-> cart_id, item_id |-> item_id,
                result |-> None, status |-> 0]]
    /\ UNCHANGED <<store, history, req, resp, numeric, created>>

\* Cart.add_item, the SELECT ... .first(): the row's quantity, or None.
conc_select(t) ==
    /\ threads[t].pc = "select"
    /\ LET p == <<threads[t].cart_id, threads[t].item_id>>
       IN threads' = [threads EXCEPT ![t].pc = "write",
                                     ![t].result = IF p \in DOMAIN cart_items
                                                   THEN Some(cart_items[p]) ELSE None]
    /\ UNCHANGED <<store, history, req, resp, numeric, created>>

\* Cart.add_item, the UPDATE to result.quantity + 1 or the INSERT of quantity 1, and
\* the commit; an INSERT of a primary key that is already there raises IntegrityError,
\* which the handler does not catch: the request is answered 500.
conc_write(t) ==
    /\ threads[t].pc = "write"
    /\ LET p == <<threads[t].cart_id, threads[t].item_id>>
       IN IF threads[t].result /= None
          THEN /\ cart_items' = [cart_items EXCEPT ![p] = threads[t].result[1] + 1]
               /\ RecordAdd(p[1], p[2])
               /\ threads' = [threads EXCEPT ![t].pc = "done", ![t].status = 200]
          ELSE IF p \in DOMAIN cart_items
          THEN /\ threads' = [threads EXCEPT ![t].pc = "done", ![t].status = 500]
               /\ UNCHANGED <<cart_items, history>>
          ELSE /\ cart_items' = Extend(cart_items, p, 1)
               /\ RecordAdd(p[1], p[2])
               /\ threads' = [threads EXCEPT ![t].pc = "done", ![t].status = 200]
    /\ UNCHANGED <<items, carts, req, resp, numeric, created>>

\* A store the sequential requests reach: every item and cart created, some entries
\* added once, and NThreads requests about to arrive.
InitConc ==
    /\ items = [i \in ItemIds |-> Item("a", 10)]
    /\ carts = CartIds
    /\ \E D \in SUBSET (CartIds \X ItemIds) :
          /\ cart_items = [p \in D |-> 1]
          /\ added = [p \in D |-> 1]
          /\ first_added = [c \in CartIds |-> Ascending({x \in ItemIds : <<c, x>> \in D})]
    /\ req = [op |-> "none"]
    /\ resp = JSONResponse(0, Message(""))
    /\ threads = [t \in Threads |-> Idle]
    /\ path = <<>>
    /\ sent = <<>>
    /\ NoRequest
    /\ created = <<>>

NextConc ==
    \/ \E t \in Threads, cart_id \in ReqCartIds, item_id \in ReqItemIds :
          conc_post_cart(t, cart_id, item_id)
    \/ \E t \in Threads : conc_select(t)
    \/ \E t \in Threads : conc_write(t)

SpecConc == InitConc /\ [][NextConc]_vars

\* ------------------------------------------------ hw1: the ASGI application
\* Strings are sequences of characters, so that split, fullmatch, int and str are
\* computed as the code computes them.
Digits == <<"0", "1", "2", "3", "4", "5", "6", "7", "8", "9">>
IsDigit(c) == \E d \in 1..Len(Digits) : Digits[d] = c
DigitValue(c) == (CHOOSE d \in 1..Len(Digits) : Digits[d] = c) - 1

FibonacciPrefix == <<"/", "f", "i", "b", "o", "n", "a", "c", "c", "i">>

\* path.startswith(prefix)
StartsWith(s, prefix) == Len(s) >= Len(prefix) /\ SubSeq(s, 1, Len(prefix)) = prefix

\* s.split("/")
RECURSIVE SplitFrom(_, _)
SplitFrom(s, current) ==
    IF s = <<>> THEN <<current>>
    ELSE IF Head(s) = "/" THEN <<current>> \o SplitFrom(Tail(s), <<>>)
    ELSE SplitFrom(Tail(s), Append(current, Head(s)))

Split(s) == SplitFrom(s, <<>>)

\* re.fullmatch(r"-?\d+", s)
FullMatchInt(s) ==
    LET digits == IF s /= <<>> /\ Head(s) = "-" THEN Tail(s) ELSE s
    IN digits /= <<>> /\ \A k \in 1..Len(digits) : IsDigit(digits[k])

\* int(s) of a string that matches -?\d+
RECURSIVE DecimalValue(_, _)
DecimalValue(digits, acc) ==
    IF digits = <<>> THEN acc
    ELSE DecimalValue(Tail(digits), 10 * acc + DigitValue(Head(digits)))

int(s) == IF Head(s) = "-" THEN 0 - DecimalValue(Tail(s), 0) ELSE DecimalValue(s, 0)

\* str(n) of an integer n >= 0
RECURSIVE str(_)
str(n) == IF n < 10 THEN <<Digits[n + 1]>> ELSE str(n \div 10) \o <<Digits[(n % 10) + 1]>>

\* a, b = 0, 1; for _ in range(n): a, b = b, a + b  -- the pair <<a, b>> after the loop
RECURSIVE FibLoop(_, _, _)
FibLoop(n, a, b) == IF n = 0 THEN <<a, b>> ELSE FibLoop(n - 1, b, a + b)

send_start(status) == [type |-> "http.response.start", status |-> status]
send_body(message, result) == [type |-> "http.response.body", message |-> message, result |-> result]

\* The messages the /fibonacci branch of application sends for a path.
FibonacciBranch(p) ==
    LET params == Tail(Split(p))
    IN IF Len(params) /= 2
       THEN <<send_start(400), send_body("bad request", None)>>
       ELSE IF ~FullMatchInt(params[2])
       THEN <<send_start(422), send_body("n should be a digit", None)>>
       ELSE IF int(params[2]) < 0
       THEN <<send_start(400), send_body("n should be >= 0", None)>>
       ELSE <<send_start(200),
              send_body("success", Some(str(FibLoop(int(params[2]), 0, 1)[2])))>>

\* Whether the path asks for a Fibonacci number larger than the model computes.
TooLarge(p) ==
    LET params == Tail(Split(p))
    IN Len(params) = 2 /\ FullMatchInt(params[2]) /\ int(params[2]) > MaxFibN

\* One call of application that returns without awaiting receive(): the messages it
\* sent and the exception its except handler caught.
Respond(p, qs, msgs, e) ==
    /\ pc /= "receive"
    /\ path' = p
    /\ query_string' = qs
    /\ sent' = msgs
    /\ error' = e
    /\ pc' = "done"
    /\ body' = <<>>
    /\ received' = NoMessage
    /\ client' = NoClient
    /\ UNCHANGED <<shop, threads, created>>

\* application on a request whose path starts with /fibonacci
application_fibonacci(p) ==
    /\ StartsWith(p, FibonacciPrefix)
    /\ ~TooLarge(p)
    /\ Respond(p, <<>>, FibonacciBranch(p), None)

PathChars == {"/", "-", "0", "1", "2", "x"}
Suffixes == UNION {[1..n -> PathChars] : n \in 0..MaxSuffixLen}

NextNumeric ==
    \E suffix \in Suffixes : application_fibonacci(FibonacciPrefix \o suffix)

SpecNumeric == Init /\ [][NextNumeric]_vars

\* ------------------------------------- hw1: /factorial, /mean and the rest
FactorialPath == <<"/", "f", "a", "c", "t", "o", "r", "i", "a", "l">>
MeanPath == <<"/", "m", "e", "a", "n">>

\* The largest argument math.factorial takes (the C long maximum, 2^63 - 1), scaled to
\* the model: above it math.factorial raises OverflowError.
MaxFactorialArg == 6

\* qs.get(b"n") of the dict built from parse_qs(scope["query_string"]), for query
\* strings of one parameter: parse_qs drops a parameter whose value is blank.
QueryN(qs) ==
    IF Len(qs) > 2 /\ SubSeq(qs, 1, 2) = <<"n", "=">> THEN Some(SubSeq(qs, 3, Len(qs)))
    ELSE None

\* decode_int: None for no value and for a value int() rejects.
decode_int(s) ==
    IF s = None THEN None
    ELSE IF FullMatchInt(s[1]) THEN Some(int(s[1]))
    ELSE None

\* math.factorial(n) for 0 <= n <= MaxFactorialArg
RECURSIVE factorial(_)
factorial(n) == IF n = 0 THEN 1 ELSE n * factorial(n - 1)

\* error_text = f"Internal server error: {e}", for the exceptions of the model.
ErrorText(e) ==
    CASE e = "factorial() argument should not exceed 9223372036854775807"
           -> "Internal server error: factorial() argument should not exceed 9223372036854775807"
      [] e = "Expecting value"
           -> "Internal server error: Expecting value"
      [] e = "object of type 'int' has no len()"
           -> "Internal server error: object of type 'int' has no len()"
      [] e = "object of type 'bool' has no len()"
           -> "Internal server error: object of type 'bool' has no len()"
      [] e = "unsupported operand type(s) for +: 'int' and 'str'"
           -> "Internal server error: unsupported operand type(s) for +: 'int' and 'str'"
      [] e = "unsupported operand type(s) for +: 'int' and 'NoneType'"
           -> "Internal server error: unsupported operand type(s) for +: 'int' and 'NoneType'"

\* What one run of the try block leaves: the messages sent and no exception ...
Sent(msgs) == [sent |-> msgs, error |-> None]

\* ... or the messages sent before an exception e, and then those of the except
\* handler.
Caught(before, e) ==
    [sent |-> before \o <<send_start(500), send_body(ErrorText(e), None)>>,
     error |-> Some(e)]

\* The /factorial branch of application for a query string.
FactorialBranch(qs) ==
    LET n == decode_int(QueryN(qs))
    IN IF n = None
       THEN Sent(<<send_start(422), send_body("invalid query params", None)>>)
       ELSE IF n[1] < 0
       THEN Sent(<<send_start(400), send_body("n should be >= 0", None)>>)
       ELSE IF n[1] > MaxFactorialArg
       THEN Caught(<<send_start(200)>>,
                   "factorial() argument should not exceed 9223372036854775807")
       ELSE Sent(<<send_start(200), send_body("success", Some(str(factorial(n[1]))))>>)

\* s.split(sep) for a separator of one character
RECURSIVE SplitOnFrom(_, _, _)
SplitOnFrom(s, sep, current) ==
    IF s = <<>> THEN <<current>>
    ELSE IF Head(s) = sep THEN <<current>> \o SplitOnFrom(Tail(s), sep, <<>>)
    ELSE SplitOnFrom(Tail(s), sep, Append(current, Head(s)))

Last(s) == s[Len(s)]
Inner(s) == SubSeq(s, 2, Len(s) - 1)
Enclosed(s, open, close) == Len(s) >= 2 /\ Head(s) = open /\ Last(s) = close

\* A JSON integer: -?\d+ with no leading zero.
JsonInt(s) ==
    /\ FullMatchInt(s)
    /\ LET digits == IF Head(s) = "-" THEN Tail(s) ELSE s
       IN Len(digits) = 1 \/ Head(digits) /= "0"

\* A JSON string without escapes.
JsonString(s) ==
    /\ Enclosed(s, "\"", "\"")
    /\ \A k \in 2..(Len(s) - 1) : s[k] \notin {"\"", "\\"}

\* The Python values json.loads builds: the type's name, the value of an int or bool,
\* and the elements of a str (characters), list (values) or dict (keys).
PyValue(type, value, elems) == [type |-> type, value |-> value, elems |-> elems]
JSONDecodeError == PyValue("JSONDecodeError", 0, <<>>)

\* json.loads of a text that holds no array and no object.
json_scalar(s) ==
    IF s = <<"n", "u", "l", "l">> THEN PyValue("NoneType", 0, <<>>)
    ELSE IF s = <<"t", "r", "u", "e">> THEN PyValue("bool", 1, <<>>)
    ELSE IF s = <<"f", "a", "l", "s", "e">> THEN PyValue("bool", 0, <<>>)
    ELSE IF JsonInt(s) THEN PyValue("int", int(s), <<>>)
    ELSE IF JsonString(s) THEN PyValue("str", 0, Inner(s))
    ELSE JSONDecodeError

\* json.loads for the texts of the model: a scalar, an array of scalars or an object
\* of at most one member with a scalar value; no whitespace, escapes or nesting.
json_loads(s) ==
    IF Enclosed(s, "[", "]")
    THEN IF Len(s) = 2 THEN PyValue("list", 0, <<>>)
         ELSE LET parts == SplitOnFrom(Inner(s), ",", <<>>)
                  elems == [k \in 1..Len(parts) |-> json_scalar(parts[k])]
              IN IF \E k \in 1..Len(elems) : elems[k] = JSONDecodeError
                 THEN JSONDecodeError
                 ELSE PyValue("list", 0, elems)
    ELSE IF Enclosed(s, "{", "}")
    THEN IF Len(s) = 2 THEN PyValue("dict", 0, <<>>)
         ELSE LET parts == SplitOnFrom(Inner(s), ":", <<>>)
              IN IF /\ Len(parts) = 2
                    /\ JsonString(parts[1])
                    /\ json_scalar(parts[2]) /= JSONDecodeError
                 THEN PyValue("dict", 0, <<json_scalar(parts[1])>>)
                 ELSE JSONDecodeError
    ELSE json_scalar(s)

\* sum(args) adds the elements to 0 from the left: the type of the first element that
\* int cannot add ("int" when there is none). Iterating a str gives strs, a dict its
\* keys.
FirstNotAddable(args) ==
    IF args.type = "str" THEN "str"
    ELSE LET bad == {k \in 1..Len(args.elems) : args.elems[k].type \notin {"int", "bool"}}
         IN IF bad = {} THEN "int"
            ELSE args.elems[CHOOSE k \in bad : \A other \in bad : k <= other].type

RECURSIVE Sum(_)
Sum(elems) == IF elems = <<>> THEN 0 ELSE Head(elems).value + Sum(Tail(elems))

RECURSIVE GCD(_, _)
GCD(a, b) == IF b = 0 THEN a ELSE GCD(b, a % b)

\* a / b for integers, b > 0: the quotient as a fraction in lowest terms (the rounding
\* of the float is not modelled).
TrueDiv(a, b) ==
    LET g == GCD(IF a < 0 THEN 0 - a ELSE a, b)
    IN [num |-> a \div g, den |-> b \div g]

\* The /mean branch of application after its receive loop, for the body read.
MeanBranch(text) ==
    LET args == json_loads(text)
    IN IF args = JSONDecodeError
       THEN Caught(<<>>, "Expecting value")
       ELSE IF args.type = "NoneType"
       THEN Sent(<<send_start(422), send_body("should be array of floats", None)>>)
       ELSE IF args.type = "int"
       THEN Caught(<<>>, "object of type 'int' has no len()")
       ELSE IF args.type = "bool"
       THEN Caught(<<>>, "object of type 'bool' has no len()")
       ELSE IF Len(args.elems) = 0
       THEN Sent(<<send_start(400), send_body("array should not be empty", None)>>)
       ELSE IF FirstNotAddable(args) = "int"
       THEN Sent(<<send_start(200),
                   send_body("success", Some(TrueDiv(Sum(args.elems), Len(args.elems))))>>)
       ELSE IF FirstNotAddable(args) = "NoneType"
       THEN Caught(<<send_start(200)>>,
                   "unsupported operand type(s) for +: 'int' and 'NoneType'")
       ELSE Caught(<<send_start(200)>>,
                   "unsupported operand type(s) for +: 'int' and 'str'")

\* application on a request whose path is /factorial
application_factorial(qs) ==
    Respond(FactorialPath, qs, FactorialBranch(qs).sent, FactorialBranch(qs).error)

\* application on a request for any other path
application_not_found(p) ==
    /\ p /= FactorialPath
    /\ ~StartsWith(p, FibonacciPrefix)
    /\ p /= MeanPath
    /\ Respond(p, <<>>, <<send_start(404), send_body("Not found", None)>>, None)

\* application on a request whose path is /mean, up to its first await receive(); the
\* server holds the request body of the client.
application_mean(text) ==
    /\ pc /= "receive"
    /\ path' = MeanPath
    /\ query_string' = <<>>
    /\ sent' = <<>>
    /\ error' = None
    /\ pc' = "receive"
    /\ body' = <<>>
    /\ received' = NoMessage
    /\ client' = [rest |-> text, connected |-> TRUE]
    /\ UNCHANGED <<shop, threads, created>>

\* receive() returns an http.request message with the next k characters of the body
\* (all that is left of an empty body) and more_body set while more is to come; the
\* loop appends them and, when more_body is false, the branch goes on to respond.
receive_request(k) ==
    /\ pc = "receive"
    /\ client.connected
    /\ k <= Len(client.rest)
    /\ k > 0 \/ client.rest = <<>>
    /\ LET more_body == k < Len(client.rest)
       IN /\ received' = [type |-> "http.request", body |-> SubSeq(client.rest, 1, k),
                          more_body |-> more_body]
          /\ body' = body \o SubSeq(client.rest, 1, k)
          /\ client' = [client EXCEPT !.rest = SubSeq(client.rest, k + 1, Len(client.rest))]
          /\ IF more_body
             THEN UNCHANGED <<pc, sent, error>>
             ELSE /\ pc' = "done"
                  /\ sent' = MeanBranch(body').sent
                  /\ error' = MeanBranch(body').error
    /\ UNCHANGED <<path, query_string, shop, threads, created>>

\* The client goes away before the server has delivered the whole body.
connection_lost ==
    /\ pc = "receive"
    /\ client.connected
    /\ client' = [client EXCEPT !.connected = FALSE]
    /\ UNCHANGED <<path, query_string, sent, pc, body, received, error, shop, threads, created>>

\* receive() after the client has gone returns http.disconnect, every time it is
\* called; the loop meets "continue" and awaits receive() again.
receive_disconnect ==
    /\ pc = "receive"
    /\ ~client.connected
    /\ received' = [type |-> "http.disconnect"]
    /\ UNCHANGED <<path, query_string, sent, pc, body, client, error, shop, threads, created>>

\* The query strings, paths and request bodies of the model.
QueryValues == {<<>>, <<"x">>, <<"-", "1">>} \cup {str(n) : n \in 0..(MaxFactorialArg + 1)}
Queries == {<<>>, <<"x", "=", "1">>} \cup {<<"n", "=">> \o v : v \in QueryValues}
OtherPaths == {<<"/">>, FactorialPath \o <<"/">>, MeanPath \o <<"s">>}
Bodies ==
    { <<>>,
      <<"n", "u", "l", "l">>,
      <<"1">>,
      <<"t", "r", "u", "e">>,
      <<"\"", "\"">>,
      <<"\"", "a", "b", "\"">>,
      <<"{", "}">>,
      <<"{", "\"", "a", "\"", ":", "1", "}">>,
      <<"[", "]">>,
      <<"[", "1", ",", "2", "]">>,
      <<"[", "1", ",", "2", ",", "3", "]">>,
      <<"[", "\"", "a", "\"", "]">>,
      <<"[", "n", "u", "l", "l", "]">>,
      <<"[", "1">> }

\* One step of the receive loop of /mean.
ReceiveLoop ==
    \/ \E k \in 0..Len(client.rest) : receive_request(k)
    \/ receive_disconnect

NextApplication ==
    \/ \E suffix \in Suffixes : application_fibonacci(FibonacciPrefix \o suffix)
    \/ \E qs \in Queries : application_factorial(qs)
    \/ \E p \in OtherPaths : application_not_found(p)
    \/ \E text \in Bodies : application_mean(text)
    \/ connection_lost
    \/ ReceiveLoop

SpecApplication == Init /\ [][NextApplication]_vars

\* The event loop resumes the coroutine whenever its receive() has a message to
\* return: the receive loop is never left waiting while it can take a step. An
\* iteration that reads http.disconnect again leaves every variable as it was, so a
\* handler that reads forever shows as a behavior that ends repeating one state.
SpecApplicationFair == SpecApplication /\ WF_vars(ReceiveLoop)

\* ------------------------------------------------------------- claims
\* The totals of a cart as sums over the set of its entries with a live item.
LiveEntries(c) ==
    {x \in ItemIds : /\ <<c, x>> \in DOMAIN cart_items
                     /\ x \in DOMAIN items
                     /\ ~items[x].deleted}

RECURSIVE SumQuantity(_, _)
SumQuantity(c, S) ==
    IF S = {} THEN 0
    ELSE LET x == CHOOSE y \in S : TRUE
         IN cart_items[<<c, x>>] + SumQuantity(c, S \ {x})

RECURSIVE SumPrice(_, _)
SumPrice(c, S) ==
    IF S = {} THEN 0
    ELSE LET x == CHOOSE y \in S : TRUE
         IN cart_items[<<c, x>>] * items[x].price + SumPrice(c, S \ {x})

C1_TotalsNow ==
    /\ \A c \in carts :
          /\ Cart_quantity(items, cart_items, c) = SumQuantity(c, LiveEntries(c))
          /\ Cart_price(items, cart_items, c) = SumPrice(c, LiveEntries(c))
          /\ (\A x \in ItemIds : <<c, x>> \notin DOMAIN cart_items) =>
                /\ Cart_quantity(items, cart_items, c) = 0
                /\ Cart_price(items, cart_items, c) = 0
    /\ (req.op = "get_cart_by_id" /\ req.id \in carts) =>
          resp.body.price = SumPrice(req.id, LiveEntries(req.id))

\* What entry (c, x) adds to the totals of c while x is live.
Contribution(c, x) ==
    IF <<c, x>> \in DOMAIN cart_items /\ ~items[x].deleted
    THEN [quantity |-> cart_items[<<c, x>>], price |-> cart_items[<<c, x>>] * items[x].price]
    ELSE [quantity |-> 0, price |-> 0]

C1_DeleteStep ==
    (req'.op = "delete_item" /\ req'.id \in DOMAIN items) =>
        /\ cart_items' = cart_items
        /\ \A c \in carts :
              /\ Cart_quantity(items', cart_items', c)
                    = Cart_quantity(items, cart_items, c) - Contribution(c, req'.id).quantity
              /\ Cart_price(items', cart_items', c)
                    = Cart_price(items, cart_items, c) - Contribution(c, req'.id).price

\* C1: in every reachable state quantity(c) and price(c) of every cart are the sums
\* of the stored quantity, and of quantity times current price, over the entries whose
\* item is not deleted (0 for an empty cart), and a soft-delete takes exactly the
\* deleted item's contribution out of every cart's totals without touching the entries.
C1_Totals == []C1_TotalsNow /\ [][C1_DeleteStep]_vars

C1_Witness ==
    /\ req.op = "delete_item"
    /\ resp.status = 200
    /\ \E c \in carts, x \in ItemIds :
          /\ x /= req.id
          /\ <<c, req.id>> \in DOMAIN cart_items
          /\ <<c, x>> \in DOMAIN cart_items
          /\ Cart_quantity(items, cart_items, c) > 0

C2_CountsNow ==
    /\ DOMAIN cart_items = DOMAIN added
    /\ \A p \in DOMAIN cart_items : cart_items[p] = added[p] /\ cart_items[p] >= 1

C2_Step ==
    /\ \A p \in DOMAIN cart_items : p \in DOMAIN cart_items' /\ cart_items'[p] >= cart_items[p]
    /\ req'.op = "post_cart" =>
          /\ DOMAIN cart_items' \subseteq DOMAIN cart_items \cup {<<req'.cart_id, req'.item_id>>}
          /\ \A p \in DOMAIN cart_items :
                p /= <<req'.cart_id, req'.item_id>> => cart_items'[p] = cart_items[p]

\* C2: the stored quantity of entry (c, x) is the number of add-item requests for
\* (c, x) answered 200 so far, so it is at least 1, never decreases and the entry is
\* never removed; an add-item for (c, x) leaves every other entry as it was.
C2_Counts == []C2_CountsNow /\ [][C2_Step]_vars

C2_Witness ==
    /\ req.op = "post_cart"
    /\ resp.status = 200
    /\ cart_items[<<req.cart_id, req.item_id>>] = 2
    /\ \E p \in DOMAIN cart_items : p[1] /= req.cart_id /\ p[2] /= req.item_id

C3_Step ==
    /\ (req'.op = "post_cart" /\ req'.cart_id \notin carts) =>
          resp' = JSONResponse(422, Message("no such cart_id")) /\ store' = store
    /\ (req'.op = "post_cart" /\ req'.cart_id \in carts /\ req'.item_id \notin DOMAIN items) =>
          resp' = JSONResponse(422, Message("no such item_id")) /\ store' = store
    /\ (req'.op = "patch_item" /\ req'.id \notin DOMAIN items) =>
          resp' = JSONResponse(422, Message("not found")) /\ store' = store
    /\ (req'.op = "patch_item" /\ req'.id \in DOMAIN items /\ items[req'.id].deleted) =>
          resp'.status = 304 /\ store' = store
    /\ (req'.op = "delete_item" /\ req'.id \notin DOMAIN items) =>
          resp' = JSONResponse(404, Message("not found")) /\ store' = store
    /\ (req'.op = "get_cart_by_id" /\ req'.id \notin carts) =>
          resp' = JSONResponse(422, Message("no such id")) /\ store' = store
    /\ resp'.status \in {304, 404, 422} => store' = store

\* C3: every rejected request (add-item with an unknown cart, checked first, or an
\* unknown item; PATCH of an unknown or of a soft-deleted item; DELETE of an unknown
\* item; GET of an unknown cart) has the stated status and message and leaves items,
\* carts and cart entries unchanged.
C3_RejectedUnchanged == [][C3_Step]_vars

C3_Witness ==
    /\ req.op = "post_cart"
    /\ resp = JSONResponse(422, Message("no such item_id"))
    /\ DOMAIN items /= {}
    /\ \E x \in ItemIds : <<req.cart_id, x>> \in DOMAIN cart_items

C4_Step ==
    (req'.op = "patch_item" /\ req'.id \in DOMAIN items /\ items[req'.id].deleted) =>
        /\ resp' = JSONResponse(304, Message("not modified"))
        /\ items'[req'.id].name = items[req'.id].name
        /\ items'[req'.id].price = items[req'.id].price

\* C4: PATCH of a soft-deleted item answers 304 "not modified" for every payload and
\* leaves the item's stored name and price as they were.
C4_PatchDeleted == [][C4_Step]_vars

C4_Witness ==
    /\ req.op = "patch_item"
    /\ resp.status = 304
    /\ req.name /= None /\ req.name[1] /= items[req.id].name
    /\ req.price /= None /\ req.price[1] /= items[req.id].price

C5_Step ==
    /\ \A i \in DOMAIN items : items[i].deleted => i \in DOMAIN items' /\ items'[i].deleted
    /\ (req'.op = "put_item" /\ req'.id \in DOMAIN items) =>
          items'[req'.id] = [name |-> req'.name, price |-> req'.price,
                             deleted |-> items[req'.id].deleted]

\* C5: a deleted flag that is true stays true over every request, and PUT on an
\* existing item overwrites name and price and keeps deleted.
C5_DeletedTerminal == [][C5_Step]_vars

C5_Witness ==
    /\ req.op = "put_item"
    /\ items[req.id].deleted
    /\ \E c \in carts : <<c, req.id>> \in DOMAIN cart_items

Ids(entries) == [k \in 1..Len(entries) |-> entries[k].id]

\* C6: GET /cart/{id} of an existing cart answers 200 and lists every item ever added
\* to it exactly once, in the order of the first adds, with the stored quantity and
\* available = not deleted.
C6_CartView ==
    (req.op = "get_cart_by_id" /\ req.id \in carts) =>
        /\ resp.status = 200
        /\ Ids(resp.body.items) = first_added[req.id]
        /\ \A k \in 1..Len(resp.body.items) :
              LET e == resp.body.items[k]
              IN /\ e.quantity = cart_items[<<req.id, e.id>>]
                 /\ e.available = ~items[e.id].deleted

\* C7: GET /item/{id} answers 200 with the item exactly when it exists and is not
\* deleted and 404 "not found" otherwise; GET /item without show_deleted returns no
\* deleted item, and with show_deleted a page that is not full and starts at offset 0
\* holds every item in the price range, deleted or not.
C7_ItemReads ==
    /\ req.op = "get_item_by_id" =>
          resp = IF req.id \in DOMAIN items /\ ~items[req.id].deleted
                 THEN JSONResponse(200, [id |-> req.id, name |-> items[req.id].name,
                                         price |-> items[req.id].price, deleted |-> FALSE])
                 ELSE JSONResponse(404, Message("not found"))
    /\ (req.op = "get_item_query" /\ ~req.show_deleted) =>
          \A k \in 1..Len(resp.body) :
              ~resp.body[k].deleted /\ ~items[resp.body[k].id].deleted
    /\ (req.op = "get_item_query" /\ req.show_deleted /\ req.offset = 0
          /\ Len(resp.body) < req.limit) =>
          \A i \in DOMAIN items :
              ((req.min_price = None \/ items[i].price >= req.min_price[1])
                  /\ (req.max_price = None \/ items[i].price <= req.max_price[1]))
              => \E k \in 1..Len(resp.body) : resp.body[k].id = i /\ resp.body[k] = Item_serialize(items, i)

C7_Witness ==
    /\ req.op = "get_item_by_id"
    /\ req.id \in DOMAIN items
    /\ items[req.id].deleted
    /\ resp.status = 404

\* The position of x in the set S taken in ascending order, and the offset/limit window.
Rank(S, x) == Cardinality({y \in S : y <= x})
InWindow(S, x, offset, limit) == offset < Rank(S, x) /\ Rank(S, x) <= offset + limit

CartInRange(c, r) ==
    /\ (r.min_price = None \/ SumPrice(c, LiveEntries(c)) >= r.min_price[1])
    /\ (r.max_price = None \/ SumPrice(c, LiveEntries(c)) <= r.max_price[1])
    /\ (r.min_quantity = None \/ SumQuantity(c, LiveEntries(c)) >= r.min_quantity[1])
    /\ (r.max_quantity = None \/ SumQuantity(c, LiveEntries(c)) <= r.max_quantity[1])

ItemInRange(i, r) ==
    /\ (r.show_deleted \/ ~items[i].deleted)
    /\ (r.min_price = None \/ items[i].price >= r.min_price[1])
    /\ (r.max_price = None \/ items[i].price <= r.max_price[1])

CartsSliceThenFilter ==
    req.op = "get_cart_with_params" =>
        Ids(resp.body) = Ascending({c \in carts : /\ InWindow(carts, c, req.offset, req.limit)
                                                  /\ CartInRange(c, req)})

ItemsSliceThenFilter ==
    req.op = "get_item_query" =>
        Ids(resp.body) = Ascending({i \in DOMAIN items :
                                       /\ InWindow(DOMAIN items, i, req.offset, req.limit)
                                       /\ ItemInRange(i, req)})

ItemsFilterThenSlice ==
    req.op = "get_item_query" =>
        LET matching == {i \in DOMAIN items : ItemInRange(i, req)}
        IN Ids(resp.body) = Ascending({i \in matching :
                                          InWindow(matching, i, req.offset, req.limit)})

\* C8 as stated: both listings slice the raw collection by offset/limit first and
\* apply the range filters to the sliced window.
C8_SliceThenFilter == CartsSliceThenFilter /\ ItemsSliceThenFilter

\* C8 amended: GET /cart slices the carts by offset/limit and then filters the window
\* by price and quantity; GET /item filters by deleted and price in the query and
\* applies offset/limit to the rows that pass.
C8_ListingOrder == CartsSliceThenFilter /\ ItemsFilterThenSlice

C8_Witness ==
    /\ req.op = "get_cart_with_params"
    /\ resp.body = <<>>
    /\ \E c \in carts : CartInRange(c, req) /\ ~InWindow(carts, c, req.offset, req.limit)
    /\ \E c \in carts : InWindow(carts, c, req.offset, req.limit)

\* C9: add-item is atomic under every interleaving: when the concurrent requests are
\* all answered, every request for an existing cart and item was answered 200 and the
\* stored quantity of every entry is the number of adds answered 200 (no increment is
\* lost and no request fails on an entry another request has just inserted).
C9_AtomicAdds ==
    (\A t \in Threads : threads[t].pc = "done") =>
        /\ \A t \in Threads :
              (threads[t].cart_id \in carts /\ threads[t].item_id \in DOMAIN items)
                  => threads[t].status = 200
        /\ DOMAIN cart_items = DOMAIN added
        /\ \A p \in DOMAIN cart_items : cart_items[p] = added[p]

\* The n-th Fibonacci number, fib(0) = 0 and fib(1) = 1.
RECURSIVE Fib(_)
Fib(n) == IF n = 0 THEN 0 ELSE IF n = 1 THEN 1 ELSE Fib(n - 1) + Fib(n - 2)

\* C10: GET /fibonacci/{n} answers 200 with the decimal string of fib(n) for every
\* integer n >= 0, 422 for a segment that is no integer and 400 for n < 0.
C10_Fibonacci ==
    LET params == Tail(Split(path))
    IN (StartsWith(path, FibonacciPrefix) /\ Len(params) = 2) =>
          IF ~FullMatchInt(params[2])
          THEN sent[1].status = 422
          ELSE IF int(params[2]) < 0
          THEN sent[1].status = 400
          ELSE /\ sent[1].status = 200
               /\ sent[2].result = Some(str(Fib(int(params[2]))))

\* C13: PUT /item/{id} answers 200; an id that does not exist is created at exactly
\* that id with the supplied name and price and deleted = false, an existing id has
\* exactly its name and price overwritten, and in both cases every other item and
\* every cart entry is unchanged.
C13_Step ==
    req'.op = "put_item" =>
        LET id == req'.id
        IN /\ resp'.status = 200
           /\ id \in DOMAIN items'
           /\ resp'.body = [id |-> id, name |-> req'.name, price |-> req'.price,
                            deleted |-> items'[id].deleted]
           /\ items'[id].name = req'.name
           /\ items'[id].price = req'.price
           /\ IF id \in DOMAIN items
              THEN DOMAIN items' = DOMAIN items /\ items'[id].deleted = items[id].deleted
              ELSE DOMAIN items' = DOMAIN items \cup {id} /\ ~items'[id].deleted
           /\ \A other \in DOMAIN items \ {id} : items'[other] = items[other]
           /\ cart_items' = cart_items
           /\ carts' = carts

C13_PutItem == [][C13_Step]_vars

C13_Witness ==
    /\ req.op = "put_item"
    /\ resp.status = 200
    /\ items[req.id].deleted
    /\ \E other \in DOMAIN items : other /= req.id
    /\ \E c \in carts : <<c, req.id>> \in DOMAIN cart_items

\* The ids POST /item has assigned so far.
PostedIds == {created[k].id : k \in {n \in 1..Len(created) : created[n].by = "add_item"}}

C14_Step ==
    /\ DOMAIN items \subseteq DOMAIN items'
    /\ req'.op = "add_item" =>
          /\ resp'.status = 201
          /\ resp'.body.id \notin DOMAIN items
          /\ \A earlier \in PostedIds : resp'.body.id > earlier
    /\ (req.op = "add_item" /\ req'.op = "get_item_by_id" /\ req'.id = resp.body.id) =>
          resp' = JSONResponse(200, [id |-> resp.body.id, name |-> req.name,
                                     price |-> req.price, deleted |-> FALSE])

\* C14: every POST /item assigns an id that no item in the store has, items created
\* through PUT included, and that is greater than every id POST /item assigned
\* before; no item ever leaves its id, and a GET /item/{id} right after the create
\* returns the same name and price with deleted = false.
C14_PostIds == [][C14_Step]_vars

\* C15: PATCH /item/{id} of an existing item that is not deleted changes only the
\* fields its payload supplies (only name leaves price, only price leaves name, an
\* empty payload changes nothing), and leaves the deleted flag, the id, every other
\* item and every cart entry unchanged.
C15_Step ==
    (req'.op = "patch_item" /\ req'.id \in DOMAIN items /\ ~items[req'.id].deleted) =>
        LET id == req'.id
        IN /\ resp'.status = 200
           /\ DOMAIN items' = DOMAIN items
           /\ items'[id].name = IF req'.name = None THEN items[id].name ELSE req'.name[1]
           /\ items'[id].price = IF req'.price = None THEN items[id].price ELSE req'.price[1]
           /\ ~items'[id].deleted
           /\ resp'.body = [id |-> id, name |-> items'[id].name,
                            price |-> items'[id].price, deleted |-> FALSE]
           /\ \A other \in DOMAIN items \ {id} : items'[other] = items[other]
           /\ cart_items' = cart_items
           /\ carts' = carts

C15_PatchFrame == [][C15_Step]_vars

C15_Witness ==
    /\ req.op = "patch_item"
    /\ resp.status = 200
    /\ req.name /= None
    /\ req.price = None
    /\ items[req.id].name = req.name[1]
    /\ \E other \in DOMAIN items : other /= req.id
    /\ \E c \in carts : <<c, req.id>> \in DOMAIN cart_items

\* The ids of the items that are not deleted, in the order the rows were created.
LiveInCreationOrder ==
    SelectSeq([k \in 1..Len(created) |-> created[k].id], LAMBDA id : ~items[id].deleted)

\* C16: GET /item with offset and limit and no price filter returns exactly the items
\* at positions offset .. offset+limit-1 of the non-deleted items in creation order,
\* in every reachable store, those with items created at chosen ids through PUT
\* included.
C16_CreationOrder ==
    (req.op = "get_item_query" /\ ~req.show_deleted
        /\ req.min_price = None /\ req.max_price = None) =>
        Ids(resp.body) = OffsetLimit(LiveInCreationOrder, req.offset, req.limit)

\* C19: POST /cart/{c}/add/{x} for an existing cart and a soft-deleted item x answers
\* 200 and adds one to the stored quantity of (c, x), and quantity(c) and price(c)
\* are the same after the request as before it.
C19_Step ==
    (/\ req'.op = "post_cart"
     /\ req'.cart_id \in carts
     /\ req'.item_id \in DOMAIN items
     /\ items[req'.item_id].deleted) =>
        LET c == req'.cart_id
            p == <<req'.cart_id, req'.item_id>>
        IN /\ resp' = JSONResponse(200, Message("item added"))
           /\ p \in DOMAIN cart_items'
           /\ cart_items'[p] = (IF p \in DOMAIN cart_items THEN cart_items[p] ELSE 0) + 1
           /\ Cart_quantity(items', cart_items', c) = Cart_quantity(items, cart_items, c)
           /\ Cart_price(items', cart_items', c) = Cart_price(items, cart_items, c)

C19_AddDeleted == [][C19_Step]_vars

C19_Witness ==
    /\ req.op = "post_cart"
    /\ resp.status = 200
    /\ items[req.item_id].deleted
    /\ cart_items[<<req.cart_id, req.item_id>>] = MaxQty
    /\ Cart_quantity(items, cart_items, req.cart_id) > 0

\* C11: POST /mean answers a non-empty array with 200 and the arithmetic mean, an
\* empty array with 400, and every JSON value that is not an array (null, number,
\* string, boolean, object) with 422.
C11_MeanClasses ==
    (pc = "done" /\ path = MeanPath /\ json_loads(body) /= JSONDecodeError) =>
        LET args == json_loads(body)
        IN IF args.type /= "list"
           THEN sent[1].status = 422
           ELSE IF args.elems = <<>>
           THEN sent[1].status = 400
           ELSE (\A k \in 1..Len(args.elems) : args.elems[k].type = "int") =>
                   /\ sent[1].status = 200
                   /\ sent[2].result[1].num * Len(args.elems)
                          = Sum(args.elems) * sent[2].result[1].den

\* C12: an uncaught failure raised while application handles a request, in whatever
\* branch and at whatever point, yields a response whose status is 500, with the
\* message "Internal server error: <details>".
C12_Failure500 ==
    (pc = "done" /\ error /= None) =>
        /\ sent[1] = send_start(500)
        /\ sent[2] = send_body(ErrorText(error[1]), None)

\* C17: for every request application handles, whatever the branch and whether or not
\* a failure occurs, exactly one http.response.start is sent, then exactly one
\* http.response.body, and nothing after it.
C17_OneStartOneBody ==
    pc = "done" =>
        /\ Len(sent) = 2
        /\ sent[1].type = "http.response.start"
        /\ sent[2].type = "http.response.body"

\* C18: the receive loop of /mean terminates for every sequence of messages receive()
\* can deliver, http.disconnect delivered again and again included: the handler
\* eventually stops reading and sends a response.
C18_ReceiveTerminates == (pc = "receive") ~> (pc = "done" /\ sent /= <<>>)

====
